---- MODULE Spec2Model ----
(***************************************************************************)
(* Model of rebel_cad::ui::WorkspaceManager (src/ui/WorkspaceManager.cpp): *)
(* the drag-and-drop state machine and the workspace persistence           *)
(* operations, with the three collaborator managers, the observer callback *)
(* and the file system as the environment.                                 *)
(*                                                                         *)
(* Floats are modelled by small integers.  Exceptions are the ones derived *)
(* from std::exception (what the libraries in use raise and what the       *)
(* catch clauses of the code name).                                        *)
(***************************************************************************)
EXTENDS Integers, Sequences, FiniteSets, TLC

VARIABLES
    current_drag,        \* WorkspaceManager::current_drag_ : <<>> (nullptr) or <<element>>
    drag_drop_callback,  \* WorkspaceManager::drag_drop_callback_ : <<>> (empty) or <<observer>>
    main_window,         \* window manager: <<>> (no main window) or <<[width, height]>>
    windows_state,       \* window manager's layout, as its SerializeState returns it
    docking_state,       \* docking manager's layout
    toolbars_state,      \* toolbar manager's layout
    dir_exists,          \* the directory "workspaces" exists
    files,               \* file name in "workspaces" |-> text of the file
    saved,               \* the names whose file holds what the last successful
                         \* SaveWorkspace of that name wrote
    op,                  \* the last public call: its name and arguments
    result,              \* what that call gave back to its caller
    calls                \* collaborator and observer calls made by that call, in order

vars == <<current_drag, drag_drop_callback, main_window, windows_state,
          docking_state, toolbars_state, dir_exists, files, saved,
          op, result, calls>>

-----------------------------------------------------------------------------
(* Bounds *)

MaxCoord == 1
MaxNameLen == 2

-----------------------------------------------------------------------------
(* Values *)

Nothing == <<>>
Some(v) == <<v>>

Coords == -1..MaxCoord
Dims == 0..MaxCoord

\* struct DraggableElement
DraggableElement(id, type, x, y, width, height, isDocked, dockLocation) ==
    [id |-> id, type |-> type, x |-> x, y |-> y, width |-> width,
     height |-> height, isDocked |-> isDocked, dockLocation |-> dockLocation]

\* the elements handed to BeginDrag
Elements ==
    { DraggableElement(1, "window", 1, 1, 2, 1, FALSE, ""),
      DraggableElement(2, "toolbar", 0, 1, 1, 1, TRUE, "left"),
      DraggableElement(3, "panel", 1, 0, 1, 2, FALSE, "") }

\* the targets handed to EndDrag
Targets ==
    { DraggableElement(i, t, x, y, 1, 1, d, IF d THEN "right" ELSE "") :
        i \in {9}, t \in {"window", "toolbar"}, x \in Coords, y \in Coords,
        d \in BOOLEAN }

Observers == {"obsA", "obsB"}

MainWindows == {Nothing} \cup { Some([width |-> w, height |-> h]) : w \in Dims, h \in Dims }

\* core/Error.h : Error::Success(), Error(message); "thrown" is an exception
\* that leaves the operation instead of a returned value
Success ==
    [kind |-> "returned", success |-> TRUE, message |-> "", what |-> "", names |-> {}]
Error(message) ==
    [kind |-> "returned", success |-> FALSE, message |-> message, what |-> "", names |-> {}]
\* Error(std::string(prefix) + e.what())
ErrorWhat(prefix, what) ==
    [kind |-> "returned", success |-> FALSE, message |-> prefix, what |-> what, names |-> {}]
Thrown(what) ==
    [kind |-> "thrown", success |-> FALSE, message |-> "", what |-> what, names |-> {}]
\* the std::vector<std::string> that GetAvailableWorkspaces returns
Listing(names) ==
    [kind |-> "returned", success |-> TRUE, message |-> "", what |-> "", names |-> names]

\* one entry of the call log
Call(fn, id, x, y, loc, who, dragged, target) ==
    [fn |-> fn, id |-> id, x |-> x, y |-> y, loc |-> loc, who |-> who,
     dragged |-> dragged, target |-> target]
CallGetMainWindow == Call("GetMainWindow", 0, 0, 0, "", "", Nothing, Nothing)
CallDockElement(id, loc) == Call("DockElement", id, 0, 0, loc, "", Nothing, Nothing)
CallObserver(who, dragged, target) == Call("observer", 0, 0, 0, "", who, Some(dragged), Some(target))
CallUpdateWindowPosition(id, x, y) == Call("UpdateWindowPosition", id, x, y, "", "", Nothing, Nothing)
CallUpdateToolbarPosition(id, x, y) == Call("UpdateToolbarPosition", id, x, y, "", "", Nothing, Nothing)
CallSerializeState(who) == Call("SerializeState", 0, 0, 0, "", who, Nothing, Nothing)
CallDeserializeState(who) == Call("DeserializeState", 0, 0, 0, "", who, Nothing, Nothing)

\* nlohmann::json values: a string, a number, a boolean or an object
JString(s) == [type |-> "string", val |-> s]
JNumber(n) == [type |-> "number", val |-> n]
JBool(b) == [type |-> "boolean", val |-> b]
JObject(o) == [type |-> "object", val |-> o]

\* the record of a public call
Op(name, element, x, y, wsname, cb) ==
    [name |-> name, element |-> element, x |-> x, y |-> y, wsname |-> wsname, cb |-> cb,
     env |-> "none"]
\* the same, with what the environment did during the call
OpIn(name, element, x, y, wsname, cb, env) ==
    [Op(name, element, x, y, wsname, cb) EXCEPT !.env = env]

-----------------------------------------------------------------------------
(* Drag and drop: WorkspaceManager.cpp lines 24-125 *)

\* the messages of the drag operations
MsgAlreadyDragging == "A drag operation is already in progress"
MsgNoDrag == "No drag operation in progress"
MsgInvalidDropTarget == "Invalid drop target location"
MsgDragFailed == "Failed to complete drag operation: "
\* the failure a docking manager reports from DockElement
DockError == Error("docking manager: cannot dock")

\* GetDraggedElement(): current_drag_, nullptr when idle
GetDraggedElement == current_drag

\* a variant of IsValidDropTarget that leaves the far edges out
IsValidDropTargetExclusive(x, y) ==
    IF x < 0 \/ y < 0 THEN FALSE
    ELSE IF main_window = Nothing THEN FALSE
    ELSE x < main_window[1].width /\ y < main_window[1].height

\* IsValidDropTarget(x, y)
IsValidDropTarget(x, y) ==
    IF x < 0 \/ y < 0 THEN FALSE
    ELSE IF main_window = Nothing THEN FALSE
    ELSE x <= main_window[1].width /\ y <= main_window[1].height

\* the collaborator calls IsValidDropTarget(x, y) makes
IsValidDropTargetCalls(x, y) ==
    IF x < 0 \/ y < 0 THEN <<>> ELSE <<CallGetMainWindow>>

\* how a run of EndDrag ends: the drag it leaves, what it returns, what it called
EndDragExit(drag, res, made) == [drag |-> drag, result |-> res, calls |-> made]

\* EndDrag, lines 57-59: the drop target is not valid
EndDragInvalidTarget(made) ==
    EndDragExit(Nothing, Error(MsgInvalidDropTarget), made)

\* a variant of EndDragDockFailed that returns without releasing the drag
EndDragDockFailedKeepsDrag(res, made) ==
    EndDragExit(current_drag, res, made)

\* EndDrag, lines 68-72: DockElement reported a failure
EndDragDockFailed(res, made) ==
    EndDragExit(Nothing, res, made)

\* EndDrag, lines 101-105: an exception raised inside the try block
EndDragCaught(what, made) ==
    EndDragExit(Nothing, ErrorWhat(MsgDragFailed, what), made)

\* EndDrag, lines 95-99: clean up and report success
EndDragCompleted(made) ==
    EndDragExit(Nothing, Success, made)

\* a variant of EndDragPositionCalls that goes by the target's type
EndDragPositionCallsByTarget(dragged, target) ==
    IF target.type = "window"
    THEN <<CallUpdateWindowPosition(dragged.id, target.x, target.y)>>
    ELSE IF target.type = "toolbar"
    THEN <<CallUpdateToolbarPosition(dragged.id, target.x, target.y)>>
    ELSE <<>>

\* EndDrag, lines 80-93: the positional update chosen by the dragged element's type
EndDragPositionCalls(dragged, target) ==
    IF dragged.type = "window"
    THEN <<CallUpdateWindowPosition(dragged.id, target.x, target.y)>>
    ELSE IF dragged.type = "toolbar"
    THEN <<CallUpdateToolbarPosition(dragged.id, target.x, target.y)>>
    ELSE <<>>

\* EndDrag, lines 80-99
EndDragUpdate(dragged, target, made, fault) ==
    LET c == EndDragPositionCalls(dragged, target)
    IN IF c # <<>> /\ fault = "update throws"
       THEN EndDragCaught("update throws", made \o c)
       ELSE EndDragCompleted(made \o c)

\* EndDrag, lines 75-78: the observer, when one is registered
EndDragNotifyCalls(dragged, target) ==
    IF drag_drop_callback # Nothing
    THEN <<CallObserver(drag_drop_callback[1], dragged, target)>>
    ELSE <<>>

\* a variant of EndDragNotify that notifies the observer after the positional update
EndDragNotifyAfterUpdate(dragged, target, made, fault) ==
    LET u == EndDragPositionCalls(dragged, target)
        c == EndDragNotifyCalls(dragged, target)
    IN IF u # <<>> /\ fault = "update throws"
       THEN EndDragCaught("update throws", made \o u)
       ELSE IF c # <<>> /\ fault = "observer throws"
       THEN EndDragCaught("observer throws", made \o u \o c)
       ELSE EndDragCompleted(made \o u \o c)

\* EndDrag, lines 75-99
EndDragNotify(dragged, target, made, fault) ==
    LET c == EndDragNotifyCalls(dragged, target)
    IN IF c # <<>> /\ fault = "observer throws"
       THEN EndDragCaught("observer throws", made \o c)
       ELSE EndDragUpdate(dragged, target, made \o c, fault)

\* a variant of EndDragDockCalls that docks the target's id
EndDragDockCallsTargetId(dragged, target) ==
    IF target.isDocked
    THEN <<CallDockElement(target.id, target.dockLocation)>>
    ELSE <<>>

\* EndDrag, lines 62-73: docking, when the target is docked
EndDragDockCalls(dragged, target) ==
    IF target.isDocked
    THEN <<CallDockElement(dragged.id, target.dockLocation)>>
    ELSE <<>>

\* EndDrag, lines 62-99
EndDragDock(dragged, target, made, fault) ==
    LET c == EndDragDockCalls(dragged, target)
    IN IF c # <<>> /\ fault = "dock fails" THEN EndDragDockFailed(DockError, made \o c)
       ELSE IF c # <<>> /\ fault = "dock throws" THEN EndDragCaught("dock throws", made \o c)
       ELSE EndDragNotify(dragged, target, made \o c, fault)

\* a variant of EndDragTry that docks before it validates the drop target
EndDragTryDocksFirst(dragged, target, fault) ==
    LET d == EndDragDockCalls(dragged, target)
        made == d \o IsValidDropTargetCalls(target.x, target.y)
    IN IF d # <<>> /\ fault = "dock fails" THEN EndDragDockFailed(DockError, d)
       ELSE IF d # <<>> /\ fault = "dock throws" THEN EndDragCaught("dock throws", d)
       ELSE IF ~IsValidDropTarget(target.x, target.y)
       THEN EndDragInvalidTarget(made)
       ELSE EndDragNotify(dragged, target, made, fault)

\* EndDrag, lines 54-105: the try block, entered with a drag active
EndDragTry(dragged, target, fault) ==
    LET made == IsValidDropTargetCalls(target.x, target.y)
    IN IF ~IsValidDropTarget(target.x, target.y)
       THEN EndDragInvalidTarget(made)
       ELSE EndDragDock(dragged, target, made, fault)

\* a variant of BeginDragBusy that takes the new element over while refusing it
BeginDragBusyReplaces(element) ==
    [drag |-> Some(element), result |-> Error(MsgAlreadyDragging)]

\* BeginDrag, lines 25-27: a drag is already active, element is refused
BeginDragBusy(element) ==
    [drag |-> current_drag, result |-> Error(MsgAlreadyDragging)]

\* BeginDrag, lines 29-35: own a copy of the element
BeginDragStart(element) == [drag |-> Some(element), result |-> Success]

\* Error BeginDrag(const DraggableElement& element)
BeginDrag(element) ==
    LET out == IF current_drag # Nothing THEN BeginDragBusy(element) ELSE BeginDragStart(element)
    IN /\ current_drag' = out.drag
       /\ result' = out.result
       /\ op' = Op("BeginDrag", Some(element), 0, 0, <<>>, Nothing)
       /\ calls' = <<>>
       /\ UNCHANGED <<drag_drop_callback, main_window, windows_state, docking_state,
                      toolbars_state, dir_exists, files, saved>>

\* a variant of UpdateDragPositionMove that makes a fresh, undocked element of
\* the same id and type at the position
UpdateDragPositionMoveFresh(x, y) ==
    Some(DraggableElement(current_drag[1].id, current_drag[1].type, x, y, 0, 0, FALSE, ""))

\* UpdateDragPosition, lines 43-46: overwrite x and y of the active drag
UpdateDragPositionMove(x, y) ==
    Some([current_drag[1] EXCEPT !.x = x, !.y = y])

\* Error UpdateDragPosition(float x, float y)
UpdateDragPosition(x, y) ==
    /\ IF current_drag = Nothing
       THEN /\ result' = Error(MsgNoDrag)
            /\ UNCHANGED current_drag
       ELSE /\ current_drag' = UpdateDragPositionMove(x, y)
            /\ result' = Success
    /\ op' = Op("UpdateDragPosition", Nothing, x, y, <<>>, Nothing)
    /\ calls' = <<>>
    /\ UNCHANGED <<drag_drop_callback, main_window, windows_state, docking_state,
                   toolbars_state, dir_exists, files, saved>>

\* a variant of EndDragIdle that validates the drop target before it looks for a drag
EndDragIdleValidatesFirst(target) ==
    IF ~IsValidDropTarget(target.x, target.y)
    THEN EndDragExit(current_drag, Error(MsgInvalidDropTarget),
                     IsValidDropTargetCalls(target.x, target.y))
    ELSE EndDragExit(current_drag, Error(MsgNoDrag),
                     IsValidDropTargetCalls(target.x, target.y))

\* EndDrag, lines 50-52: no drag is active, target is not looked at
EndDragIdle(target) ==
    EndDragExit(current_drag, Error(MsgNoDrag), <<>>)

\* the failure of the environment that a result of EndDrag reports, if any
StruckFault(res) ==
    IF res = DockError THEN "dock fails"
    ELSE IF res.message = MsgDragFailed THEN res.what
    ELSE "none"

\* Error EndDrag(const DraggableElement& target); fault is what the environment
\* does during the call, and is one that the call meets
EndDrag(target, fault) ==
    LET out == IF current_drag = Nothing
               THEN EndDragIdle(target)
               ELSE EndDragTry(current_drag[1], target, fault)
    IN /\ StruckFault(out.result) = fault
       /\ current_drag' = out.drag
       /\ result' = out.result
       /\ calls' = out.calls
       /\ op' = OpIn("EndDrag", Some(target), 0, 0, <<>>, Nothing, fault)
       /\ UNCHANGED <<drag_drop_callback, main_window, windows_state, docking_state,
                      toolbars_state, dir_exists, files, saved>>

\* a variant of SetDragDropCallback that keeps an observer already registered
SetDragDropCallbackKeepsFirst(callback) ==
    /\ drag_drop_callback' = IF drag_drop_callback # Nothing THEN drag_drop_callback
                             ELSE callback
    /\ op' = Op("SetDragDropCallback", Nothing, 0, 0, <<>>, callback)
    /\ result' = Success
    /\ calls' = <<>>
    /\ UNCHANGED <<current_drag, main_window, windows_state, docking_state,
                   toolbars_state, dir_exists, files, saved>>

\* what a query gives back to its caller
Answer(v) ==
    [kind |-> "returned", success |-> TRUE, message |-> "", what |-> "", names |-> {},
     value |-> v]

\* a caller asks IsValidDropTarget(x, y)
AskIsValidDropTarget(x, y) ==
    /\ result' = Answer(IsValidDropTarget(x, y))
    /\ calls' = IsValidDropTargetCalls(x, y)
    /\ op' = Op("IsValidDropTarget", Nothing, x, y, <<>>, Nothing)
    /\ UNCHANGED <<current_drag, drag_drop_callback, main_window, windows_state,
                   docking_state, toolbars_state, dir_exists, files, saved>>

\* a caller asks GetDraggedElement()
AskGetDraggedElement ==
    /\ result' = Answer(GetDraggedElement)
    /\ calls' = <<>>
    /\ op' = Op("GetDraggedElement", Nothing, 0, 0, <<>>, Nothing)
    /\ UNCHANGED <<current_drag, drag_drop_callback, main_window, windows_state,
                   docking_state, toolbars_state, dir_exists, files, saved>>

\* void SetDragDropCallback(DragDropCallback callback)
SetDragDropCallback(callback) ==
    /\ drag_drop_callback' = callback
    /\ op' = Op("SetDragDropCallback", Nothing, 0, 0, <<>>, callback)
    /\ result' = Success
    /\ calls' = <<>>
    /\ UNCHANGED <<current_drag, main_window, windows_state, docking_state,
                   toolbars_state, dir_exists, files, saved>>

\* the window manager creates, resizes or closes the main window
SetMainWindow(w) ==
    /\ main_window' = w
    /\ op' = Op("env", Nothing, 0, 0, <<>>, Nothing)
    /\ result' = Success
    /\ calls' = <<>>
    /\ UNCHANGED <<current_drag, drag_drop_callback, windows_state, docking_state,
                   toolbars_state, dir_exists, files, saved>>

-----------------------------------------------------------------------------
(* Workspace names and files: WorkspaceManager.cpp lines 197-214 *)

\* characters, by their code: 'a', ' ' and '{' (the character after 'z')
Alphabet == {97, 32, 123}

\* the names handed to the operations
Names == UNION { [1..n -> Alphabet] : n \in 0..MaxNameLen }

\* ".json"
DotJson == <<46, 106, 115, 111, 110>>

\* GetWorkspacePath(name): the file name inside the directory "workspaces"
GetWorkspacePath(name) == name \o DotJson

\* a variant of IsNameChar whose lower-case range ends one character late
IsNameCharWideRange(c) ==
    \/ c \in 97..123 \/ c \in 65..90 \/ c \in 48..57
    \/ c = 95 \/ c = 45

\* the character class [a-zA-Z0-9_-] of valid_name_regex
IsNameChar(c) ==
    \/ c \in 97..122 \/ c \in 65..90 \/ c \in 48..57
    \/ c = 95 \/ c = 45

MsgEmptyName == "Workspace name cannot be empty"
MsgInvalidName ==
    "Workspace name can only contain letters, numbers, underscores, and hyphens"

\* Error ValidateWorkspaceName(const std::string& name)
ValidateWorkspaceName(name) ==
    IF Len(name) = 0 THEN Error(MsgEmptyName)
    ELSE IF ~(\A i \in 1..Len(name) : IsNameChar(name[i])) THEN Error(MsgInvalidName)
    ELSE Success

\* std::filesystem::path::extension() and stem() of a file name
LastDot(f) == CHOOSE i \in 0..Len(f) :
                 /\ i > 0 => f[i] = 46
                 /\ \A j \in (i + 1)..Len(f) : f[j] # 46
Extension(f) ==
    IF LastDot(f) <= 1 \/ f = <<46, 46>> THEN <<>> ELSE SubSeq(f, LastDot(f), Len(f))
Stem(f) ==
    IF LastDot(f) <= 1 \/ f = <<46, 46>> THEN f ELSE SubSeq(f, 1, LastDot(f) - 1)

\* std::ifstream / std::ofstream can open the file
OpensForReading(path) == dir_exists /\ path \in DOMAIN files
OpensForWriting(path) == dir_exists

-----------------------------------------------------------------------------
(* Workspace documents: WorkspaceManager.cpp lines 216-266 *)

\* system_clock::now() at the time of a save
Now == 123456789

\* the keys of a document, in the order of nlohmann::json's std::map
KeyOrder == <<"docking", "drag_state", "timestamp", "toolbars", "version", "windows">>

\* the text of a file: json::dump writes "{", the members in key order, "}"
Dump(doc) ==
    LET ks == SelectSeq(KeyOrder, LAMBDA k : k \in DOMAIN doc)
    IN [open |-> TRUE,
        members |-> [i \in 1..Len(ks) |-> <<ks[i], doc[ks[i]]>>],
        closed |-> TRUE]

\* a std::string that holds the byte 0xFF, which no UTF-8 text holds
BadUtf8 == "<FF>"

\* json::dump raises type_error 316 for a string that is not UTF-8, at any depth
\* of the document
DumpThrows(doc) ==
    \E k \in DOMAIN doc :
        \/ doc[k].type = "string" /\ doc[k].val = BadUtf8
        \/ /\ doc[k].type = "object"
           /\ \E m \in DOMAIN doc[k].val :
                 doc[k].val[m].type = "string" /\ doc[k].val[m].val = BadUtf8

\* the text of a file that std::ofstream has created or truncated and that
\* nothing was written to
EmptyText == [open |-> FALSE, members |-> <<>>, closed |-> FALSE]

\* operator>>: the text parses when it is a complete object
Parses(text) == text.open /\ text.closed

\* the document that a text parses to: a later member replaces an earlier one
\* of the same key
Parse(text) ==
    LET ms == text.members
        last(k) == CHOOSE i \in 1..Len(ms) :
                      /\ ms[i][1] = k
                      /\ \A j \in (i + 1)..Len(ms) : ms[j][1] # k
    IN [k \in {ms[i][1] : i \in 1..Len(ms)} |-> ms[last(k)][2]]

\* a variant of DragState that writes the two coordinates in each other's place
DragStateSwapsPosition(e) ==
    [element_id |-> JNumber(e.id), element_type |-> JString(e.type),
     position_x |-> JNumber(e.y), position_y |-> JNumber(e.x),
     is_docked |-> JBool(e.isDocked), dock_location |-> JString(e.dockLocation)]

\* SerializeCurrentState, lines 226-233: the snapshot of the active drag
DragState(e) ==
    [element_id |-> JNumber(e.id), element_type |-> JString(e.type),
     position_x |-> JNumber(e.x), position_y |-> JNumber(e.y),
     is_docked |-> JBool(e.isDocked), dock_location |-> JString(e.dockLocation)]

\* a variant of SerializeVersion that stamps another version
SerializeVersionOther == JString("1.1")

\* SerializeCurrentState, line 237
SerializeVersion == JString("1.0")

\* nlohmann::json SerializeCurrentState() const
SerializeCurrentState ==
    LET managers == ("windows" :> windows_state) @@ ("docking" :> docking_state)
                       @@ ("toolbars" :> toolbars_state)
        drag == IF current_drag # Nothing
                THEN "drag_state" :> JObject(DragState(current_drag[1]))
                ELSE <<>>
        meta == ("version" :> SerializeVersion) @@ ("timestamp" :> JNumber(Now))
    IN managers @@ drag @@ meta

SerializeCurrentStateCalls ==
    <<CallSerializeState("windows"), CallSerializeState("docking"),
      CallSerializeState("toolbars")>>

MsgUnsupportedVersion == "Unsupported workspace format version"
MsgApplyFailed == "Failed to apply workspace state: "
MsgNotFound == "Workspace file not found"
MsgLoadFailed == "Failed to load workspace: "
MsgSaveFailed == "Failed to save workspace: "
MsgOpenFailed == "Failed to open workspace file for writing"
MsgNotExist == "Workspace does not exist"

\* what a manager's DeserializeState does with a sub-document: it takes a
\* layout over, refuses one it finds invalid, or raises an exception
DeserializeStateOutcome(sub) ==
    IF sub.type = "string" /\ sub.val = "bad" THEN "rejects"
    ELSE IF sub.type = "string" /\ sub.val = "boom" THEN "throws"
    ELSE "accepts"
\* the failure a manager reports from DeserializeState
ManagerError(who) == ErrorWhat("manager: invalid state: ", who)

\* how a load ends: what it returns, what it called, the managers' layouts
ApplyExit(res, made, w, d, t) ==
    [result |-> res, calls |-> made, windows |-> w, docking |-> d, toolbars |-> t]

\* DeserializeAndApplyState, lines 258-261: the toolbar manager
ApplyToolbars(state, made, w, d) ==
    IF "toolbars" \notin DOMAIN state
    THEN ApplyExit(ErrorWhat(MsgApplyFailed, "key 'toolbars' not found"),
                   made, w, d, toolbars_state)
    ELSE LET c == made \o <<CallDeserializeState("toolbars")>>
             o == DeserializeStateOutcome(state["toolbars"])
         IN IF o = "throws"
            THEN ApplyExit(ErrorWhat(MsgApplyFailed, "toolbars"), c, w, d, toolbars_state)
            ELSE IF o = "rejects"
            THEN ApplyExit(ManagerError("toolbars"), c, w, d, toolbars_state)
            ELSE ApplyExit(Success, c, w, d, state["toolbars"])

\* a variant of ApplyDocking that puts the window manager's old layout back
\* when the docking manager fails
ApplyDockingRollsBack(state, made, w) ==
    IF "docking" \notin DOMAIN state
    THEN ApplyExit(ErrorWhat(MsgApplyFailed, "key 'docking' not found"),
                   made, windows_state, docking_state, toolbars_state)
    ELSE LET c == made \o <<CallDeserializeState("docking")>>
             o == DeserializeStateOutcome(state["docking"])
         IN IF o = "throws"
            THEN ApplyExit(ErrorWhat(MsgApplyFailed, "docking"), c, windows_state,
                           docking_state, toolbars_state)
            ELSE IF o = "rejects"
            THEN ApplyExit(ManagerError("docking"), c, windows_state, docking_state,
                           toolbars_state)
            ELSE ApplyToolbars(state, c, w, state["docking"])

\* DeserializeAndApplyState, lines 255-261: the docking manager, then the rest
ApplyDocking(state, made, w) ==
    IF "docking" \notin DOMAIN state
    THEN ApplyExit(ErrorWhat(MsgApplyFailed, "key 'docking' not found"),
                   made, w, docking_state, toolbars_state)
    ELSE LET c == made \o <<CallDeserializeState("docking")>>
             o == DeserializeStateOutcome(state["docking"])
         IN IF o = "throws"
            THEN ApplyExit(ErrorWhat(MsgApplyFailed, "docking"), c, w,
                           docking_state, toolbars_state)
            ELSE IF o = "rejects"
            THEN ApplyExit(ManagerError("docking"), c, w, docking_state, toolbars_state)
            ELSE ApplyToolbars(state, c, w, state["docking"])

\* DeserializeAndApplyState, lines 251-261: the window manager, then the rest
ApplyWindows(state) ==
    IF "windows" \notin DOMAIN state
    THEN ApplyExit(ErrorWhat(MsgApplyFailed, "key 'windows' not found"),
                   <<>>, windows_state, docking_state, toolbars_state)
    ELSE LET c == <<CallDeserializeState("windows")>>
             o == DeserializeStateOutcome(state["windows"])
         IN IF o = "throws"
            THEN ApplyExit(ErrorWhat(MsgApplyFailed, "windows"), c, windows_state,
                           docking_state, toolbars_state)
            ELSE IF o = "rejects"
            THEN ApplyExit(ManagerError("windows"), c, windows_state,
                           docking_state, toolbars_state)
            ELSE ApplyDocking(state, c, state["windows"])

\* Error DeserializeAndApplyState(const nlohmann::json& state)
DeserializeAndApplyState(state) ==
    IF "version" \notin DOMAIN state
    THEN ApplyExit(ErrorWhat(MsgApplyFailed, "key 'version' not found"),
                   <<>>, windows_state, docking_state, toolbars_state)
    ELSE IF state["version"].type # "string"
    THEN ApplyExit(ErrorWhat(MsgApplyFailed, "type must be string"),
                   <<>>, windows_state, docking_state, toolbars_state)
    ELSE IF state["version"].val # "1.0"
    THEN ApplyExit(Error(MsgUnsupportedVersion),
                   <<>>, windows_state, docking_state, toolbars_state)
    ELSE ApplyWindows(state)

\* a variant of LoadWorkspaceTry that validates the name as SaveWorkspace does
LoadWorkspaceTryValidates(name) ==
    LET path == GetWorkspacePath(name)
        v == ValidateWorkspaceName(name)
    IN IF ~v.success
       THEN ApplyExit(v, <<>>, windows_state, docking_state, toolbars_state)
       ELSE IF ~OpensForReading(path)
       THEN ApplyExit(Error(MsgNotFound), <<>>, windows_state, docking_state,
                      toolbars_state)
       ELSE IF ~Parses(files[path])
       THEN ApplyExit(ErrorWhat(MsgLoadFailed, "parse error"), <<>>, windows_state,
                      docking_state, toolbars_state)
       ELSE DeserializeAndApplyState(Parse(files[path]))

\* LoadWorkspace, lines 152-167
LoadWorkspaceTry(name) ==
    LET path == GetWorkspacePath(name)
    IN IF ~OpensForReading(path)
       THEN ApplyExit(Error(MsgNotFound), <<>>, windows_state, docking_state,
                      toolbars_state)
       ELSE IF ~Parses(files[path])
       THEN ApplyExit(ErrorWhat(MsgLoadFailed, "parse error"), <<>>, windows_state,
                      docking_state, toolbars_state)
       ELSE DeserializeAndApplyState(Parse(files[path]))

\* a variant of LoadWorkspace that takes the drag of the document over when the
\* load succeeds
LoadWorkspaceRestoresDrag(name) ==
    LET out == LoadWorkspaceTry(name)
        doc == Parse(files[GetWorkspacePath(name)])
    IN /\ result' = out.result
       /\ calls' = out.calls
       /\ windows_state' = out.windows
       /\ docking_state' = out.docking
       /\ toolbars_state' = out.toolbars
       /\ op' = Op("LoadWorkspace", Nothing, 0, 0, name, Nothing)
       /\ current_drag' =
             IF out.result.success /\ "drag_state" \in DOMAIN doc
             THEN LET d == doc["drag_state"].val
                  IN Some(DraggableElement(d.element_id.val, d.element_type.val,
                                           d.position_x.val, d.position_y.val, 0, 0,
                                           d.is_docked.val, d.dock_location.val))
             ELSE current_drag
       /\ UNCHANGED <<drag_drop_callback, main_window, dir_exists, files, saved>>

\* Error LoadWorkspace(const std::string& name)
LoadWorkspace(name) ==
    LET out == LoadWorkspaceTry(name)
    IN /\ result' = out.result
       /\ calls' = out.calls
       /\ windows_state' = out.windows
       /\ docking_state' = out.docking
       /\ toolbars_state' = out.toolbars
       /\ op' = Op("LoadWorkspace", Nothing, 0, 0, name, Nothing)
       /\ UNCHANGED <<current_drag, drag_drop_callback, main_window, dir_exists, files,
                      saved>>

\* how a save ends: what it returns, what it called, the files it leaves
SaveExit(res, made, fs) == [result |-> res, calls |-> made, files |-> fs]

\* SaveWorkspace, lines 133-148; fault is what the environment does
SaveWorkspaceTry(name, fault) ==
    IF fault = "serialize throws"
    THEN SaveExit(ErrorWhat(MsgSaveFailed, fault), <<CallSerializeState("windows")>>, files)
    ELSE IF ~OpensForWriting(GetWorkspacePath(name))
    THEN SaveExit(Error(MsgOpenFailed), SerializeCurrentStateCalls, files)
    ELSE IF DumpThrows(SerializeCurrentState)
    THEN SaveExit(ErrorWhat(MsgSaveFailed, "invalid UTF-8 byte"), SerializeCurrentStateCalls,
                  (GetWorkspacePath(name) :> EmptyText) @@ files)
    ELSE SaveExit(Success, SerializeCurrentStateCalls,
                  (GetWorkspacePath(name) :> Dump(SerializeCurrentState)) @@ files)

\* SaveWorkspace, lines 128-131: the name is refused
SaveWorkspaceRefused(res) == SaveExit(res, <<>>, files)

\* Error SaveWorkspace(const std::string& name)
SaveWorkspace(name, fault) ==
    LET v == ValidateWorkspaceName(name)
        out == IF ~v.success THEN SaveWorkspaceRefused(v) ELSE SaveWorkspaceTry(name, fault)
    IN /\ fault # "none" => out.result.what = fault
       /\ result' = out.result
       /\ calls' = out.calls
       /\ files' = out.files
       /\ saved' = IF out.result.success THEN saved \cup {name}
                   ELSE IF out.files # files THEN saved \ {name}
                   ELSE saved
       /\ op' = OpIn("SaveWorkspace", Nothing, 0, 0, name, Nothing, fault)
       /\ UNCHANGED <<current_drag, drag_drop_callback, main_window, windows_state,
                      docking_state, toolbars_state, dir_exists>>

\* std::vector<std::string> GetAvailableWorkspaces() const
GetAvailableWorkspaces ==
    /\ result' = IF ~dir_exists
                 THEN Thrown("filesystem_error")
                 ELSE Listing({Stem(f) : f \in {g \in DOMAIN files : Extension(g) = DotJson}})
    /\ calls' = <<>>
    /\ op' = Op("GetAvailableWorkspaces", Nothing, 0, 0, <<>>, Nothing)
    /\ UNCHANGED <<current_drag, drag_drop_callback, main_window, windows_state,
                   docking_state, toolbars_state, dir_exists, files, saved>>

\* a variant of RemoveFile that empties the directory
RemoveFileAndOthers(path) == <<>>

\* DeleteWorkspace, line 189: std::filesystem::remove(path)
RemoveFile(path) == [f \in DOMAIN files \ {path} |-> files[f]]

\* Error DeleteWorkspace(const std::string& name)
DeleteWorkspace(name) ==
    LET path == GetWorkspacePath(name)
    IN /\ IF ~(dir_exists /\ path \in DOMAIN files)
          THEN /\ result' = Error(MsgNotExist)
               /\ UNCHANGED <<files, saved>>
          ELSE /\ files' = RemoveFile(path)
               /\ saved' = saved \ {name}
               /\ result' = Success
       /\ calls' = <<>>
       /\ op' = Op("DeleteWorkspace", Nothing, 0, 0, name, Nothing)
       /\ UNCHANGED <<current_drag, drag_drop_callback, main_window, windows_state,
                      docking_state, toolbars_state, dir_exists>>

\* std::filesystem::remove_all("workspaces"), as the test fixture does
RemoveAll ==
    /\ dir_exists
    /\ dir_exists' = FALSE
    /\ files' = <<>>
    /\ saved' = {}
    /\ op' = Op("env", Nothing, 0, 0, <<>>, Nothing)
    /\ result' = Success
    /\ calls' = <<>>
    /\ UNCHANGED <<current_drag, drag_drop_callback, main_window, windows_state,
                   docking_state, toolbars_state>>

\* std::filesystem::create_directories("workspaces")
CreateDirectories ==
    /\ ~dir_exists
    /\ dir_exists' = TRUE
    /\ op' = Op("env", Nothing, 0, 0, <<>>, Nothing)
    /\ result' = Success
    /\ calls' = <<>>
    /\ UNCHANGED <<current_drag, drag_drop_callback, main_window, windows_state,
                   docking_state, toolbars_state, files, saved>>

\* another program writes the file of a workspace, as the tests do
WriteFile(name, text) ==
    /\ dir_exists
    /\ files' = (GetWorkspacePath(name) :> text) @@ files
    /\ saved' = saved \ {name}
    /\ op' = Op("env", Nothing, 0, 0, name, Nothing)
    /\ result' = Success
    /\ calls' = <<>>
    /\ UNCHANGED <<current_drag, drag_drop_callback, main_window, windows_state,
                   docking_state, toolbars_state, dir_exists>>

-----------------------------------------------------------------------------
(* The state after construction: WorkspaceManager.cpp lines 8-22 *)

Init ==
    /\ current_drag = Nothing
    /\ drag_drop_callback = Nothing
    /\ main_window \in MainWindows
    /\ windows_state = JString("s0")
    /\ docking_state = JString("s0")
    /\ toolbars_state = JString("s0")
    /\ dir_exists = TRUE
    /\ files = <<>>
    /\ saved = {}
    /\ op = Op("constructor", Nothing, 0, 0, <<>>, Nothing)
    /\ result = Success
    /\ calls = <<>>

\* what the environment of one EndDrag does: every collaborator and the observer
\* work, or the named one is the first to fail (the first failure ends the call);
\* the text of an exception is the name of the failure
Faults == {"none", "dock fails", "dock throws", "observer throws", "update throws"}

\* the drag-and-drop machine with its environment
Next ==
    \/ \E e \in Elements : BeginDrag(e)
    \/ \E x \in Coords, y \in Coords : UpdateDragPosition(x, y)
    \/ \E t \in Targets, f \in Faults : EndDrag(t, f)
    \/ \E c \in {Nothing} \cup {Some(o) : o \in Observers} : SetDragDropCallback(c)
    \/ \E w \in MainWindows : SetMainWindow(w)

Spec == Init /\ [][Next]_vars

-----------------------------------------------------------------------------
(* The workspace store: names, files and the directory *)

\* the one drag of the store: an element, a move and a drop
StoreElement == DraggableElement(1, "window", 1, 1, 2, 1, FALSE, "")
StoreTarget == DraggableElement(9, "window", 0, 0, 1, 1, FALSE, "")

\* texts that other programs leave in the directory: "{ invalid json content"
\* and the document of another version (WorkspaceManagerTests.cpp lines 112-118, 130)
CorruptedText == [open |-> TRUE, members |-> <<>>, closed |-> FALSE]
IncompatibleText ==
    Dump(("version" :> JString("2.0")) @@ ("timestamp" :> JNumber(Now))
         @@ ("windows" :> JString("s1")) @@ ("docking" :> JString("s1"))
         @@ ("toolbars" :> JString("s1")))
StoreTexts == {CorruptedText, IncompatibleText}

\* the names that other programs give their files
FileNames == {n \in Names : ValidateWorkspaceName(n).success}

\* the names handed to the operations that do not validate them: the names of
\* files, the empty name and the names of one character
LookupNames == FileNames \cup {n \in Names : Len(n) <= 1}

SaveFaults == {"none", "serialize throws"}

InitStore ==
    /\ Init
    /\ main_window = Some([width |-> MaxCoord, height |-> MaxCoord])

NextStore ==
    \/ \E n \in Names, f \in SaveFaults : SaveWorkspace(n, f)
    \/ \E n \in LookupNames : LoadWorkspace(n)
    \/ \E n \in LookupNames : DeleteWorkspace(n)
    \/ GetAvailableWorkspaces
    \/ RemoveAll
    \/ CreateDirectories
    \/ \E n \in FileNames, t \in StoreTexts : WriteFile(n, t)
    \/ BeginDrag(StoreElement)
    \/ UpdateDragPosition(MaxCoord, 0)
    \/ EndDrag(StoreTarget, "none")

SpecStore == InitStore /\ [][NextStore]_vars

-----------------------------------------------------------------------------
(* The workspace documents: what a file of one workspace may hold *)

DocName == <<97>>

\* the version and the sub-documents that a document written by another
\* program may hold: none, or a value
DocVersions == {Nothing, Some(JString("1.0")), Some(JString("2.0")), Some(JNumber(2))}
DocSubs == {Nothing, Some(JString("s1")), Some(JString("bad")), Some(JString("boom"))}

Member(key, v) == IF v = Nothing THEN <<>> ELSE key :> v[1]

DocTexts ==
    { Dump(Member("version", v) @@ Member("windows", w) @@ Member("docking", d)
           @@ Member("toolbars", t) @@ ("timestamp" :> JNumber(Now))) :
        v \in DocVersions, w \in DocSubs, d \in DocSubs, t \in DocSubs }
    \cup {CorruptedText, EmptyText}

NextDoc ==
    \/ \E t \in DocTexts : WriteFile(DocName, t)
    \/ \E f \in SaveFaults : SaveWorkspace(DocName, f)
    \/ LoadWorkspace(DocName)
    \/ DeleteWorkspace(DocName)
    \/ BeginDrag(StoreElement)
    \/ UpdateDragPosition(MaxCoord, 0)
    \/ EndDrag(StoreTarget, "none")

SpecDoc == InitStore /\ [][NextDoc]_vars

-----------------------------------------------------------------------------
(* The workspace list: saves and deletes in a directory that starts empty and
   that no other program writes to *)

\* an element whose type string is not UTF-8
RawElement == DraggableElement(2, BadUtf8, 0, 0, 1, 1, FALSE, "")
ListElements == {StoreElement, RawElement}

NextList ==
    \/ \E n \in Names, f \in SaveFaults : SaveWorkspace(n, f)
    \/ \E n \in LookupNames : DeleteWorkspace(n)
    \/ GetAvailableWorkspaces
    \/ \E e \in ListElements : BeginDrag(e)
    \/ EndDrag(StoreTarget, "none")

SpecList == InitStore /\ [][NextList]_vars

-----------------------------------------------------------------------------
(* The drag beside the other operations: one workspace, saved, loaded, listed
   and deleted while a drag starts, moves and ends *)

NextFrame ==
    \/ \E f \in SaveFaults : SaveWorkspace(DocName, f)
    \/ LoadWorkspace(DocName)
    \/ DeleteWorkspace(DocName)
    \/ GetAvailableWorkspaces
    \/ RemoveAll
    \/ CreateDirectories
    \/ \E c \in {Nothing} \cup {Some(o) : o \in Observers} : SetDragDropCallback(c)
    \/ \E x \in Coords, y \in Coords : AskIsValidDropTarget(x, y)
    \/ AskGetDraggedElement
    \/ BeginDrag(StoreElement)
    \/ UpdateDragPosition(MaxCoord, 0)
    \/ EndDrag(StoreTarget, "none")

SpecFrame == InitStore /\ [][NextFrame]_vars

-----------------------------------------------------------------------------
(* Properties of the drag-and-drop machine *)

\* what the last call left outside the drag: observer slot, collaborators, disk
Surroundings == <<drag_drop_callback, main_window, windows_state, docking_state,
                  toolbars_state, dir_exists, files, saved>>

\* the position (x, y) lies outside [0, width] x [0, height] of the main window,
\* or there is no main window
OutsideMainWindow(x, y) ==
    \/ main_window = Nothing
    \/ x < 0 \/ y < 0
    \/ x > main_window[1].width \/ y > main_window[1].height

\* the entries of a call log made to one of the named functions
CallsTo(log, fns) == SelectSeq(log, LAMBDA c : c.fn \in fns)
PositionUpdates == {"UpdateWindowPosition", "UpdateToolbarPosition"}

\* C1: an EndDrag made while a drag is active leaves no drag, whichever way it
\* ends, and a BeginDrag that directly follows any EndDrag succeeds and starts
\* the drag of its element.
C1_EndDragAlwaysClears ==
    [][ /\ (op'.name = "EndDrag" /\ current_drag # Nothing)
           => GetDraggedElement' = Nothing
        /\ (op.name = "EndDrag" /\ op'.name = "BeginDrag")
           => (result' = Success /\ GetDraggedElement' = op'.element) ]_vars

\* C1 witness: an EndDrag ended by a docking failure, no drag left
C1_Witness ==
    /\ op.name = "EndDrag"
    /\ result = DockError
    /\ CallsTo(calls, {"DockElement"}) # <<>>
    /\ GetDraggedElement = Nothing

\* C2: BeginDrag during an active drag fails with "A drag operation is already
\* in progress" and leaves the active drag, field by field, and everything
\* else as it was, whatever element it was given.
C2_BeginDragWhileDraggingRefused ==
    [][ (op'.name = "BeginDrag" /\ current_drag # Nothing)
        => /\ result' = Error(MsgAlreadyDragging)
           /\ current_drag' = current_drag
           /\ calls' = <<>>
           /\ UNCHANGED Surroundings ]_vars

\* C2 witness: a refused BeginDrag of another element than the one being
\* dragged, whose position an UpdateDragPosition had moved
C2_Witness ==
    /\ op.name = "BeginDrag"
    /\ result = Error(MsgAlreadyDragging)
    /\ current_drag # Nothing
    /\ current_drag[1].id # op.element[1].id
    /\ current_drag[1] \notin Elements

\* C3: UpdateDragPosition and EndDrag made while idle fail with "No drag
\* operation in progress", stay idle, and call neither the observer nor any
\* collaborator, whatever the target.
C3_IdleUpdateAndEndRefused ==
    [][ (op'.name \in {"UpdateDragPosition", "EndDrag"} /\ current_drag = Nothing)
        => /\ result' = Error(MsgNoDrag)
           /\ current_drag' = Nothing
           /\ calls' = <<>>
           /\ UNCHANGED Surroundings ]_vars

\* C3 witness: an EndDrag refused while idle whose target lies outside the
\* main window, with an observer registered
C3_Witness ==
    /\ op.name = "EndDrag"
    /\ result = Error(MsgNoDrag)
    /\ current_drag = Nothing
    /\ OutsideMainWindow(op.element[1].x, op.element[1].y)
    /\ op.element[1].isDocked
    /\ drag_drop_callback # Nothing

\* C4: an EndDrag of an active drag onto a position outside the main window
\* fails with "Invalid drop target location", clears the drag, and calls
\* neither DockElement, nor the observer, nor a positional update.
C4_InvalidTargetNoSideEffect ==
    [][ (/\ op'.name = "EndDrag"
         /\ current_drag # Nothing
         /\ OutsideMainWindow(op'.element[1].x, op'.element[1].y))
        => /\ result' = Error(MsgInvalidDropTarget)
           /\ current_drag' = Nothing
           /\ CallsTo(calls', {"DockElement", "observer"} \cup PositionUpdates) = <<>>
           /\ UNCHANGED Surroundings ]_vars

\* C4 witness: such an EndDrag with a docked target and an observer registered
C4_Witness ==
    /\ op.name = "EndDrag"
    /\ result = Error(MsgInvalidDropTarget)
    /\ op.element[1].isDocked
    /\ op.element[1].x >= 0 /\ op.element[1].y >= 0
    /\ drag_drop_callback # Nothing

\* C5: a successful EndDrag with an observer registered calls the observer
\* exactly once, with the dragged element as the drag held it and the target,
\* after the drop-target query and the DockElement call and before the
\* positional update.
C5_ObserverOnceBetweenDockAndUpdate ==
    [][ (op'.name = "EndDrag" /\ result'.success /\ drag_drop_callback # Nothing)
        => /\ current_drag # Nothing
           /\ CallsTo(calls', {"observer"}) =
                 <<CallObserver(drag_drop_callback[1], current_drag[1], op'.element[1])>>
           /\ \A i, j \in DOMAIN calls' :
                 calls'[i].fn = "observer"
                 => /\ calls'[j].fn \in {"GetMainWindow", "DockElement"} => j < i
                    /\ calls'[j].fn \in PositionUpdates => j > i ]_vars

\* C5 witness: a successful EndDrag that docked, notified and updated, of a
\* drag whose position an UpdateDragPosition had moved
C5_Witness ==
    /\ op.name = "EndDrag"
    /\ result = Success
    /\ Len(calls) = 4
    /\ calls[3].fn = "observer"
    /\ calls[3].dragged[1] \notin Elements
    /\ <<calls[3].dragged[1].x, calls[3].dragged[1].y>> #
          <<op.element[1].x, op.element[1].y>>

\* C6: a successful EndDrag makes the positional update of the dragged
\* element's type: one UpdateWindowPosition for "window", one
\* UpdateToolbarPosition for "toolbar", none for another type, with the
\* dragged element's id and the target's x and y; and an EndDrag onto a valid
\* position whose collaborators and observer all work succeeds for every type.
C6_PositionUpdateByDraggedType ==
    [][ /\ (op'.name = "EndDrag" /\ result'.success)
           => /\ current_drag # Nothing
              /\ CallsTo(calls', PositionUpdates) =
                    (CASE current_drag[1].type = "window" ->
                            <<CallUpdateWindowPosition(current_drag[1].id,
                                 op'.element[1].x, op'.element[1].y)>>
                       [] current_drag[1].type = "toolbar" ->
                            <<CallUpdateToolbarPosition(current_drag[1].id,
                                 op'.element[1].x, op'.element[1].y)>>
                       [] OTHER -> <<>>)
        /\ (/\ op'.name = "EndDrag"
            /\ current_drag # Nothing
            /\ ~OutsideMainWindow(op'.element[1].x, op'.element[1].y)
            /\ op'.env = "none")
           => result' = Success ]_vars

\* C6 witness: a successful EndDrag of a toolbar onto a target of type window,
\* at another position than the drag's own, that updated the toolbar
C6_Witness ==
    /\ op.name = "EndDrag"
    /\ result = Success
    /\ op.element[1].type = "window"
    /\ \E i \in DOMAIN calls :
          /\ calls[i].fn = "UpdateToolbarPosition"
          /\ calls[i].id # op.element[1].id
    /\ \E i \in DOMAIN calls :
          /\ calls[i].fn = "observer"
          /\ <<calls[i].dragged[1].x, calls[i].dragged[1].y>> #
                <<op.element[1].x, op.element[1].y>>

\* C19: an EndDrag of an active drag onto a valid position calls DockElement
\* exactly when the target is docked, once, with the dragged element's id and
\* the target's dockLocation; when DockElement reports a failure, EndDrag
\* returns that failure as it is, calls neither the observer nor a positional
\* update, and clears the drag; when it works, EndDrag goes on to the observer
\* and the positional update and returns success.
C19_DockIffTargetDocked ==
    [][ (/\ op'.name = "EndDrag"
         /\ current_drag # Nothing
         /\ ~OutsideMainWindow(op'.element[1].x, op'.element[1].y))
        => LET target == op'.element[1]
           IN /\ CallsTo(calls', {"DockElement"}) =
                    (IF target.isDocked
                     THEN <<CallDockElement(current_drag[1].id, target.dockLocation)>>
                     ELSE <<>>)
              /\ op'.env = "dock fails"
                 => /\ target.isDocked
                    /\ result' = DockError
                    /\ CallsTo(calls', {"observer"} \cup PositionUpdates) = <<>>
                    /\ current_drag' = Nothing
              /\ (target.isDocked /\ op'.env = "none")
                 => /\ result' = Success
                    /\ current_drag' = Nothing
                    /\ Len(CallsTo(calls', {"observer"})) =
                          (IF drag_drop_callback # Nothing THEN 1 ELSE 0)
                    /\ Len(CallsTo(calls', PositionUpdates)) =
                          (IF current_drag[1].type \in {"window", "toolbar"} THEN 1 ELSE 0)
                    /\ \A i, j \in DOMAIN calls' :
                          (calls'[i].fn = "DockElement" /\ calls'[j].fn \in
                              {"observer"} \cup PositionUpdates) => i < j ]_vars

\* C19 witness: an EndDrag that a failure of DockElement ended, of a dragged
\* window with an observer registered, DockElement having got the dragged id
C19_Witness ==
    /\ op.name = "EndDrag"
    /\ result = DockError
    /\ drag_drop_callback # Nothing
    /\ current_drag = Nothing
    /\ \E i \in DOMAIN calls :
          /\ calls[i].fn = "DockElement"
          /\ calls[i].id # op.element[1].id
          /\ calls[i].loc = op.element[1].dockLocation
    /\ CallsTo(calls, {"observer"} \cup PositionUpdates) = <<>>

\* C20: the observer slot holds one callback: SetDragDropCallback puts its
\* argument in the slot in place of what was there and nothing else changes
\* the slot, and a successful EndDrag calls the observer in the slot, once,
\* and no other; with an empty slot an EndDrag calls no observer, and succeeds
\* when the target is valid and the collaborators work.
C20_SingleObserverSlot ==
    [][ /\ op'.name = "SetDragDropCallback" => drag_drop_callback' = op'.cb
        /\ op'.name # "SetDragDropCallback" => UNCHANGED drag_drop_callback
        /\ op'.name = "EndDrag"
           => /\ \A i \in DOMAIN calls' :
                    calls'[i].fn = "observer"
                    => (drag_drop_callback # Nothing /\ calls'[i].who = drag_drop_callback[1])
              /\ result'.success
                 => Len(CallsTo(calls', {"observer"})) =
                       (IF drag_drop_callback # Nothing THEN 1 ELSE 0)
        /\ (/\ op'.name = "EndDrag"
            /\ current_drag # Nothing
            /\ drag_drop_callback = Nothing
            /\ ~OutsideMainWindow(op'.element[1].x, op'.element[1].y)
            /\ op'.env = "none")
           => (result' = Success /\ CallsTo(calls', {"observer"}) = <<>>) ]_vars

\* C20 witness: a successful EndDrag that called obsB, the observer in the
\* slot, once and no other observer
C20_Witness ==
    /\ op.name = "EndDrag"
    /\ result = Success
    /\ drag_drop_callback = Some("obsB")
    /\ Len(CallsTo(calls, {"observer"})) = 1
    /\ \A i \in DOMAIN calls : calls[i].fn = "observer" => calls[i].who = "obsB"

\* C21: the active drag has the id, type, size, docked flag and dock location
\* of the element given to the BeginDrag that started it, and the position of
\* the latest UpdateDragPosition since, or the element's own: a drag starts
\* only by a BeginDrag made while idle and then is that element; an
\* UpdateDragPosition during a drag succeeds, overwrites x and y, keeps every
\* other field and keeps the drag; and no other call alters a drag that it
\* leaves active.
C21_DragFieldsFollowBeginAndUpdate ==
    [][ /\ (current_drag = Nothing /\ current_drag' # Nothing)
           => (op'.name = "BeginDrag" /\ current_drag' = op'.element)
        /\ (op'.name = "UpdateDragPosition" /\ current_drag # Nothing)
           => /\ result' = Success
              /\ current_drag' # Nothing
              /\ current_drag'[1].x = op'.x /\ current_drag'[1].y = op'.y
              /\ \A fld \in {"id", "type", "width", "height", "isDocked", "dockLocation"} :
                    current_drag'[1][fld] = current_drag[1][fld]
        /\ (op'.name # "UpdateDragPosition" /\ current_drag # Nothing /\ current_drag' # Nothing)
           => current_drag' = current_drag ]_vars

\* C21 witness: a drag of a docked element of size 1 x 1 that an
\* UpdateDragPosition has moved away from where the element was picked up
C21_Witness ==
    /\ op.name = "UpdateDragPosition"
    /\ result = Success
    /\ current_drag # Nothing
    /\ \E e \in Elements :
          /\ e.isDocked
          /\ current_drag[1] = [e EXCEPT !.x = op.x, !.y = op.y]
          /\ <<op.x, op.y>> # <<e.x, e.y>>

\* C22: IsValidDropTarget(x, y) is true exactly when there is a main window and
\* 0 <= x <= its width and 0 <= y <= its height, the edges included; an EndDrag
\* of an active drag fails with "Invalid drop target location" exactly when
\* its target is not such a position for the main window as it is at the call,
\* and so for every target when there is no main window.
C22_DropTargetInclusiveLive ==
    [][ /\ \A x \in Coords, y \in Coords :
              IsValidDropTarget(x, y)
              <=> /\ main_window # Nothing
                  /\ 0 <= x /\ x <= main_window[1].width
                  /\ 0 <= y /\ y <= main_window[1].height
        /\ (op'.name = "EndDrag" /\ current_drag # Nothing)
           => /\ result' = Error(MsgInvalidDropTarget)
                 <=> ~(/\ main_window # Nothing
                       /\ 0 <= op'.element[1].x /\ op'.element[1].x <= main_window[1].width
                       /\ 0 <= op'.element[1].y /\ op'.element[1].y <= main_window[1].height)
              /\ main_window = Nothing => result' = Error(MsgInvalidDropTarget) ]_vars

\* C22 witness: a successful EndDrag onto the far corner of a main window of
\* positive width, at x = width and y = height
C22_Witness ==
    /\ op.name = "EndDrag"
    /\ result = Success
    /\ main_window # Nothing
    /\ main_window[1].width > 0
    /\ op.element[1].x = main_window[1].width
    /\ op.element[1].y = main_window[1].height

-----------------------------------------------------------------------------
(* Properties of the workspace store *)

\* the characters a-z, A-Z, 0-9, '_' and '-'
NameCharacters == (97..122) \cup (65..90) \cup (48..57) \cup {95, 45}

\* the document in the file of a workspace name, when the file holds one
HoldsDocument(name) ==
    /\ dir_exists
    /\ GetWorkspacePath(name) \in DOMAIN files
    /\ files[GetWorkspacePath(name)].open
    /\ files[GetWorkspacePath(name)].closed
DocumentOf(name) == Parse(files[GetWorkspacePath(name)])

\* C7: SaveWorkspace refuses an empty name with the empty-name message and a
\* name with a character outside a-z, A-Z, 0-9, '_', '-' with the
\* invalid-characters message, in both cases without touching a file or asking
\* a manager to serialize; a name of such characters only is not refused by
\* the validation.
C7_SaveValidatesNameFirst ==
    [][ op'.name = "SaveWorkspace"
        => LET n == op'.wsname
               refused(msg) == /\ result' = Error(msg)
                               /\ calls' = <<>>
                               /\ UNCHANGED <<files, dir_exists, saved>>
           IN /\ n = <<>> => refused(MsgEmptyName)
              /\ (n # <<>> /\ \E i \in DOMAIN n : n[i] \notin NameCharacters)
                 => refused(MsgInvalidName)
              /\ (n # <<>> /\ \A i \in DOMAIN n : n[i] \in NameCharacters)
                 => result'.message \notin {MsgEmptyName, MsgInvalidName} ]_vars

\* C7 witness: a save refused for a name that mixes a valid character with an
\* invalid one, while a workspace file exists
C7_Witness ==
    /\ op.name = "SaveWorkspace"
    /\ result = Error(MsgInvalidName)
    /\ \E i \in DOMAIN op.wsname : op.wsname[i] \in NameCharacters
    /\ \E i \in DOMAIN op.wsname : op.wsname[i] \notin NameCharacters
    /\ DOMAIN files # {}

\* C8: LoadWorkspace of a name whose file holds what the last successful
\* SaveWorkspace of that name wrote (not deleted or overwritten since)
\* succeeds, with or without a drag in the saved document.
C8_SaveThenLoadSucceeds ==
    [][ (op'.name = "LoadWorkspace" /\ op'.wsname \in saved) => result' = Success ]_vars

\* C8 witness: a successful load of a saved workspace, of a name of more than
\* one character, whose document holds a drag
C8_Witness ==
    /\ op.name = "LoadWorkspace"
    /\ result = Success
    /\ op.wsname \in saved
    /\ Len(op.wsname) > 1
    /\ HoldsDocument(op.wsname)
    /\ "drag_state" \in DOMAIN DocumentOf(op.wsname)
    /\ CallsTo(calls, {"DeserializeState"}) # <<>>

\* C9: SaveWorkspace with a valid name, made after the directory "workspaces"
\* was removed, succeeds and leaves the file of the name.
C9_SaveAfterDirectoryRemoved ==
    [][ (/\ op'.name = "SaveWorkspace"
         /\ op'.wsname # <<>>
         /\ \A i \in DOMAIN op'.wsname : op'.wsname[i] \in NameCharacters
         /\ op'.env = "none"
         /\ ~dir_exists)
        => (result' = Success /\ GetWorkspacePath(op'.wsname) \in DOMAIN files') ]_vars

\* C10: LoadWorkspace of a document that has a version other than "1.0" fails
\* with "Unsupported workspace format version", whatever the other members
\* are, and calls no manager's DeserializeState: the managers stay as they were.
C10_OtherVersionRefused ==
    [][ (/\ op'.name = "LoadWorkspace"
         /\ HoldsDocument(op'.wsname)
         /\ "version" \in DOMAIN DocumentOf(op'.wsname)
         /\ ~(/\ DocumentOf(op'.wsname)["version"].type = "string"
              /\ DocumentOf(op'.wsname)["version"].val = "1.0"))
        => /\ result' = Error(MsgUnsupportedVersion)
           /\ calls' = <<>>
           /\ UNCHANGED <<windows_state, docking_state, toolbars_state>> ]_vars

-----------------------------------------------------------------------------
(* Properties of the workspace documents *)

\* C11: LoadWorkspace of a well-formed document that has no member "version"
\* fails with "Unsupported workspace format version", as a document of another
\* version does.
C11_MissingVersionRefused ==
    [][ (/\ op'.name = "LoadWorkspace"
         /\ HoldsDocument(op'.wsname)
         /\ "version" \notin DOMAIN DocumentOf(op'.wsname))
        => result' = Error(MsgUnsupportedVersion) ]_vars

\* the document in the file of a workspace name among the files fs
HoldsDocumentIn(fs, name) ==
    /\ GetWorkspacePath(name) \in DOMAIN fs
    /\ fs[GetWorkspacePath(name)].open
    /\ fs[GetWorkspacePath(name)].closed
DocumentIn(fs, name) == Parse(fs[GetWorkspacePath(name)])

\* the managers in the order DeserializeAndApplyState goes through them, and
\* the layout each one holds
ManagerOrder == <<"windows", "docking", "toolbars">>
Layouts == [windows |-> windows_state, docking |-> docking_state,
            toolbars |-> toolbars_state]

\* C18: LoadWorkspace of a document of version "1.0" calls the managers'
\* DeserializeState in the order windows, docking, toolbars; the first manager
\* that reports a failure ends the load with that failure as the result, no
\* later manager is called or changed, and the managers before it keep the
\* layout they took over; when all three accept, the load succeeds.
C18_ApplyInOrderNoRollback ==
    [][ (/\ op'.name = "LoadWorkspace"
         /\ HoldsDocument(op'.wsname)
         /\ "version" \in DOMAIN DocumentOf(op'.wsname)
         /\ DocumentOf(op'.wsname)["version"] = JString("1.0"))
        => LET doc == DocumentOf(op'.wsname)
               accepts(j) == /\ ManagerOrder[j] \in DOMAIN doc
                             /\ DeserializeStateOutcome(doc[ManagerOrder[j]]) = "accepts"
               rejects(j) == /\ ManagerOrder[j] \in DOMAIN doc
                             /\ DeserializeStateOutcome(doc[ManagerOrder[j]]) = "rejects"
               called(k) == [j \in 1..k |-> CallDeserializeState(ManagerOrder[j])]
           IN /\ \E k \in 0..3 : calls' = called(k)
              /\ \A k \in 1..3 :
                    ((\A j \in 1..(k - 1) : accepts(j)) /\ rejects(k))
                    => /\ result' = ManagerError(ManagerOrder[k])
                       /\ calls' = called(k)
                       /\ \A j \in 1..(k - 1) :
                             Layouts'[ManagerOrder[j]] = doc[ManagerOrder[j]]
                       /\ \A j \in (k + 1)..3 :
                             Layouts'[ManagerOrder[j]] = Layouts[ManagerOrder[j]]
              /\ (\A j \in 1..3 : accepts(j))
                 => /\ result' = Success
                    /\ calls' = called(3)
                    /\ \A j \in 1..3 : Layouts'[ManagerOrder[j]] = doc[ManagerOrder[j]] ]_vars

\* C18 witness: a load that the docking manager ended: the window manager has
\* the document's layout, another one than before, and the toolbar manager was
\* not called and has another layout than the document's
C18_Witness ==
    /\ op.name = "LoadWorkspace"
    /\ result = ManagerError("docking")
    /\ calls = <<CallDeserializeState("windows"), CallDeserializeState("docking")>>
    /\ HoldsDocument(op.wsname)
    /\ "toolbars" \in DOMAIN DocumentOf(op.wsname)
    /\ windows_state = DocumentOf(op.wsname)["windows"]
    /\ windows_state # docking_state
    /\ toolbars_state # DocumentOf(op.wsname)["toolbars"]

\* C12: the document that a successful SaveWorkspace leaves in the file has a
\* member "drag_state" exactly when a drag is active at the save, and then its
\* element_id, element_type, position_x and position_y are the id, the type and
\* the current position of that drag; a save made while idle, as after an
\* EndDrag, leaves a document without the member.
C12_DragStateIffDragging ==
    [][ (op'.name = "SaveWorkspace" /\ result'.success)
        => /\ HoldsDocumentIn(files', op'.wsname)
           /\ LET doc == DocumentIn(files', op'.wsname)
              IN /\ "drag_state" \in DOMAIN doc <=> current_drag # Nothing
                 /\ current_drag # Nothing
                    => /\ doc["drag_state"].type = "object"
                       /\ doc["drag_state"].val.element_id = JNumber(current_drag[1].id)
                       /\ doc["drag_state"].val.element_type = JString(current_drag[1].type)
                       /\ doc["drag_state"].val.position_x = JNumber(current_drag[1].x)
                       /\ doc["drag_state"].val.position_y = JNumber(current_drag[1].y) ]_vars

\* C12 witness: a saved document with the drag_state of a drag that an
\* UpdateDragPosition had moved away from where the element was picked up
C12_Witness ==
    /\ op.name = "SaveWorkspace"
    /\ result = Success
    /\ current_drag # Nothing
    /\ <<current_drag[1].x, current_drag[1].y>> # <<StoreElement.x, StoreElement.y>>
    /\ current_drag[1].x # current_drag[1].y
    /\ HoldsDocument(op.wsname)
    /\ "drag_state" \in DOMAIN DocumentOf(op.wsname)
    /\ DocumentOf(op.wsname)["drag_state"].val.position_x = JNumber(current_drag[1].x)

-----------------------------------------------------------------------------
(* Properties of deleting, listing and looking up *)

\* the file of a workspace name exists
HasFile(name) == dir_exists /\ GetWorkspacePath(name) \in DOMAIN files

\* C13: DeleteWorkspace of a name without a file fails with "Workspace does
\* not exist" and changes no file; of a name with a file it succeeds and
\* removes that file and no other; directly after a successful delete the name
\* is not listed, LoadWorkspace of it fails with "Workspace file not found" and
\* another DeleteWorkspace of it fails with "Workspace does not exist".
C13_DeleteRemovesExactlyTheFile ==
    [][ /\ (op'.name = "DeleteWorkspace" /\ ~HasFile(op'.wsname))
           => (result' = Error(MsgNotExist) /\ UNCHANGED <<files, dir_exists>>)
        /\ (op'.name = "DeleteWorkspace" /\ HasFile(op'.wsname))
           => /\ result' = Success
              /\ DOMAIN files' = DOMAIN files \ {GetWorkspacePath(op'.wsname)}
              /\ \A f \in DOMAIN files' : files'[f] = files[f]
              /\ UNCHANGED dir_exists
        /\ (op.name = "DeleteWorkspace" /\ result.success)
           => /\ op'.name = "GetAvailableWorkspaces"
                 => (result'.kind = "returned" /\ op.wsname \notin result'.names)
              /\ (op'.name = "LoadWorkspace" /\ op'.wsname = op.wsname)
                 => result' = Error(MsgNotFound)
              /\ (op'.name = "DeleteWorkspace" /\ op'.wsname = op.wsname)
                 => result' = Error(MsgNotExist) ]_vars

\* C13 witness: a successful delete of a saved workspace that left the file of
\* another saved workspace in the directory
C13_Witness ==
    /\ op.name = "DeleteWorkspace"
    /\ result = Success
    /\ ~HasFile(op.wsname)
    /\ \E n \in saved : HasFile(n) /\ n # op.wsname

\* the names that a listing of the files fs gives
ListedIn(fs) == {Stem(f) : f \in {g \in DOMAIN fs : Extension(g) = DotJson}}

\* C14: in a directory that starts empty and that only SaveWorkspace and
\* DeleteWorkspace change, GetAvailableWorkspaces returns the names saved and
\* not deleted since: a successful save adds its name to the listing (once), a
\* successful delete takes its name out, and a failed save or a failed delete
\* leaves the listing as it was.
C14_ListIsSavedNotDeleted ==
    [][ /\ op'.name = "GetAvailableWorkspaces"
           => result' = Listing(ListedIn(files))
        /\ (op'.name = "SaveWorkspace" /\ result'.success)
           => ListedIn(files') = ListedIn(files) \cup {op'.wsname}
        /\ (op'.name = "DeleteWorkspace" /\ result'.success)
           => ListedIn(files') = ListedIn(files) \ {op'.wsname}
        /\ (op'.name \in {"SaveWorkspace", "DeleteWorkspace"} /\ ~result'.success)
           => ListedIn(files') = ListedIn(files) ]_vars

\* C15: LoadWorkspace of a name without a file, never saved or deleted since,
\* fails with "Workspace file not found" and calls no manager's
\* DeserializeState; the name is not validated, so this is also what a name
\* that SaveWorkspace refuses gets.
C15_LoadWithoutFileNotFound ==
    [][ (op'.name = "LoadWorkspace" /\ ~HasFile(op'.wsname))
        => /\ result' = Error(MsgNotFound)
           /\ calls' = <<>>
           /\ UNCHANGED <<windows_state, docking_state, toolbars_state, files>> ]_vars

\* C15 witness: a load, found to have no file, of a name with a character that
\* SaveWorkspace refuses, while other workspaces have files
C15_Witness ==
    /\ op.name = "LoadWorkspace"
    /\ result = Error(MsgNotFound)
    /\ op.wsname # <<>>
    /\ ~ValidateWorkspaceName(op.wsname).success
    /\ DOMAIN files # {}

-----------------------------------------------------------------------------
(* Properties of failures *)

\* C16: no public operation lets an exception leave it: in every state of the
\* directory, the files and the managers, each call returns a value.
C16_NoExceptionEscapes == result.kind = "returned"

\* C17: an exception that the observer raises during EndDrag is not caught by
\* EndDrag: it leaves EndDrag as it is and is not turned into an error result.
C17_ObserverFailureNotCaught ==
    [][ (op'.name = "EndDrag" /\ op'.env = "observer throws")
        => result'.kind = "thrown" ]_vars

-----------------------------------------------------------------------------
(* Properties of the drag beside the other operations *)

\* the operations that are not part of a drag
OutsideDrag ==
    {"SaveWorkspace", "LoadWorkspace", "GetAvailableWorkspaces", "DeleteWorkspace",
     "SetDragDropCallback", "IsValidDropTarget", "GetDraggedElement"}

\* C23: SaveWorkspace, LoadWorkspace, GetAvailableWorkspaces, DeleteWorkspace,
\* SetDragDropCallback, IsValidDropTarget and GetDraggedElement leave the drag
\* as it is, whether they succeed or fail: idle stays idle, an active drag
\* keeps every field, also when LoadWorkspace reads a document with a
\* drag_state; GetDraggedElement gives that drag.
C23_OtherOperationsKeepDrag ==
    [][ /\ op'.name \in OutsideDrag => current_drag' = current_drag
        /\ op'.name = "GetDraggedElement" => result'.value = current_drag ]_vars

\* C23 witness: a successful load of a document with a drag_state, made during
\* a drag at another position than the document's
C23_Witness ==
    /\ op.name = "LoadWorkspace"
    /\ result = Success
    /\ HoldsDocument(op.wsname)
    /\ "drag_state" \in DOMAIN DocumentOf(op.wsname)
    /\ current_drag # Nothing
    /\ DocumentOf(op.wsname)["drag_state"].val.position_y # JNumber(current_drag[1].y)

====
